---------------------------- MODULE Spec2Model ----------------------------
(***************************************************************************)
(* A model of the parameter pipeline of python-amazon-mws:                 *)
(*   mws/utils/params.py  flat_param_dict, clean_value, clean_params_dict  *)
(*   mws/mws.py           RequestParameter, clean_params,                  *)
(*                        calc_request_description, MWS.make_request       *)
(* Python strings are TLA+ strings (Len, SubSeq and \o act on them).       *)
(* A Python value is a record tagged by its type in field t.  A Python     *)
(* dict is the sequence of its <<key, value>> pairs in insertion order.    *)
(***************************************************************************)
EXTENDS Integers, Sequences, FiniteSets, TLC

VARIABLES
    pc,       \* the call that has run ("start" before any), or in make_request
              \* the statement that has run
    value,    \* the first argument of the call (make_request's extra_data)
    prefix,   \* flat_param_dict's prefix / RequestParameter's key
    result,   \* what the call returned or raised
    self,     \* the MWS client make_request is called on
    method,   \* make_request's method
    now,      \* what utc_timestamp() returns
    params,   \* make_request's params
    request_description,   \* make_request's request_description
    signature,             \* make_request's signature
    url                    \* make_request's url

callvars == <<pc, value, prefix, result>>
reqvars == <<self, method, now, params, request_description, signature, url>>
vars == <<pc, value, prefix, result, self, method, now, params,
          request_description, signature, url>>

(***************************************************************************)
(* Bounds of the model.                                                    *)
(***************************************************************************)
MaxNodes == 4      \* nodes (containers and leaves) of a nested value
MaxStrLen == 3     \* characters of a string given to the cleaners
MaxParams == 3     \* entries of a dict given to calc_request_description
MaxValues == 3     \* elements of the values given to the enumerate functions

(***************************************************************************)
(* Characters.  Ascii lists the printable ASCII characters from code point *)
(* 32 to 126; a tab stands at the place of the grave accent (96).          *)
(***************************************************************************)
Ascii == " !\"#$%&'()*+,-./0123456789:;<=>?@ABCDEFGHIJKLMNOPQRSTUVWXYZ[\\]^_\tabcdefghijklmnopqrstuvwxyz{|}~"

CharAt(s, i) == SubSeq(s, i, i)

CodePoints ==
    [c \in {CharAt(Ascii, i) : i \in 1..Len(Ascii)} |->
        31 + (CHOOSE i \in 1..Len(Ascii) : CharAt(Ascii, i) = c)]

CodePoint(c) == CodePoints[c]

Chr(n) == CharAt(Ascii, n - 31)

EndsWith(s, c) == Len(s) > 0 /\ CharAt(s, Len(s)) = c

RECURSIVE IntToStr(_)
IntToStr(n) ==
    IF n < 0 THEN "-" \o IntToStr(-n)
    ELSE IF n < 10 THEN CharAt("0123456789", n + 1)
    ELSE IntToStr(n \div 10) \o CharAt("0123456789", (n % 10) + 1)

(***************************************************************************)
(* Python values.                                                          *)
(***************************************************************************)
PyNone == [t |-> "NoneType"]
PyStr(s) == [t |-> "str", s |-> s]
PyInt(n) == [t |-> "int", n |-> n]
PyBool(b) == [t |-> "bool", b |-> b]
PyDate(y, m, d) == [t |-> "date", year |-> y, month |-> m, day |-> d]
PyDateTime(y, m, d, hh, mm, ss) ==
    [t |-> "datetime", year |-> y, month |-> m, day |-> d,
     hour |-> hh, minute |-> mm, second |-> ss]
PyDict(items) == [t |-> "dict", items |-> items]
PyList(elems) == [t |-> "list", elems |-> elems]
PyTuple(elems) == [t |-> "tuple", elems |-> elems]
PySet(elems) == [t |-> "set", elems |-> elems]
PyRange(n) == [t |-> "range", stop |-> n]

\* isinstance(v, str), isinstance(v, dict)
IsStr(v) == v.t = "str"
IsDict(v) == v.t = "dict"

\* isinstance(v, collections.abc.Iterable)
IsIterable(v) == v.t \in {"str", "dict", "list", "tuple", "set", "range"}

\* list(v) for a non-dict iterable: the elements in iteration order
IterElems(v) ==
    IF v.t = "range"
    THEN [i \in 1..v.stop |-> PyInt(i - 1)]
    ELSE v.elems

\* A call's outcome: the value returned, or the exception raised.
Return(r) == [exc |-> "", ret |-> r]
Raise(e) == [exc |-> e, ret |-> <<>>]
NoResult == [exc |-> "", ret |-> <<>>]

\* No make_request call is under way.
NoClient == [access_key |-> "", secret_key |-> "", account_id |-> "", auth_token |-> "",
             version |-> "", uri |-> "", domain |-> "", _test_request_params |-> FALSE]
NoSignature == [key |-> "", msg |-> ""]
NoUrl == [text |-> "", signature |-> NoSignature]
NoRequest ==
    /\ self = NoClient
    /\ method = ""
    /\ now = ""
    /\ params = <<>>
    /\ request_description = ""
    /\ signature = NoSignature
    /\ url = NoUrl

(***************************************************************************)
(* dict operations on sequences of <<key, value>> pairs.                   *)
(***************************************************************************)
\* list(d.keys())
KeysOf(d) == [i \in 1..Len(d) |-> d[i][1]]
DictKeys(d) == {d[i][1] : i \in 1..Len(d)}
DictHas(d, k) == \E i \in 1..Len(d) : d[i][1] = k
DictGet(d, k) == d[CHOOSE i \in 1..Len(d) : d[i][1] = k][2]

\* d[k] = v
DictSet(d, k, v) ==
    IF DictHas(d, k)
    THEN [i \in 1..Len(d) |-> IF d[i][1] = k THEN <<k, v>> ELSE d[i]]
    ELSE Append(d, <<k, v>>)

\* d.update(e)
RECURSIVE DictUpdate(_, _)
DictUpdate(d, e) ==
    IF e = <<>> THEN d
    ELSE DictUpdate(DictSet(d, Head(e)[1], Head(e)[2]), Tail(e))

(***************************************************************************)
(* Python built-ins the cleaning code calls.                               *)
(***************************************************************************)
\* n as decimal digits, zero-padded to width (the %02d / %04d of isoformat)
RECURSIVE ZeroPad(_, _)
ZeroPad(s, width) == IF Len(s) >= width THEN s ELSE ZeroPad("0" \o s, width)

\* date.isoformat() and datetime.isoformat() (microsecond = 0, no tzinfo)
isoformat(v) ==
    LET ymd == ZeroPad(IntToStr(v.year), 4) \o "-" \o ZeroPad(IntToStr(v.month), 2)
               \o "-" \o ZeroPad(IntToStr(v.day), 2)
    IN  IF v.t = "datetime"
        THEN ymd \o "T" \o ZeroPad(IntToStr(v.hour), 2) \o ":"
                 \o ZeroPad(IntToStr(v.minute), 2) \o ":" \o ZeroPad(IntToStr(v.second), 2)
        ELSE ymd

\* sep.join(strs)
RECURSIVE join(_, _)
join(sep, strs) ==
    IF strs = <<>> THEN ""
    ELSE IF Len(strs) = 1 THEN strs[1]
    ELSE strs[1] \o sep \o join(sep, Tail(strs))

\* repr(v); a str is taken to hold no quote and no backslash
RECURSIVE repr(_)
repr(v) ==
    CASE v.t = "str" -> "'" \o v.s \o "'"
      [] v.t = "int" -> IntToStr(v.n)
      [] v.t = "bool" -> IF v.b THEN "True" ELSE "False"
      [] v.t = "NoneType" -> "None"
      [] v.t = "date" ->
            "datetime.date(" \o IntToStr(v.year) \o ", " \o IntToStr(v.month)
            \o ", " \o IntToStr(v.day) \o ")"
      [] v.t = "datetime" ->
            "datetime.datetime(" \o IntToStr(v.year) \o ", " \o IntToStr(v.month)
            \o ", " \o IntToStr(v.day) \o ", " \o IntToStr(v.hour) \o ", "
            \o IntToStr(v.minute) \o ", " \o IntToStr(v.second) \o ")"
      [] v.t = "range" -> "range(0, " \o IntToStr(v.stop) \o ")"
      [] v.t = "list" ->
            "[" \o join(", ", [i \in 1..Len(v.elems) |-> repr(v.elems[i])]) \o "]"
      [] v.t = "tuple" ->
            IF Len(v.elems) = 1 THEN "(" \o repr(v.elems[1]) \o ",)"
            ELSE "(" \o join(", ", [i \in 1..Len(v.elems) |-> repr(v.elems[i])]) \o ")"
      [] v.t = "set" ->
            IF v.elems = <<>> THEN "set()"
            ELSE "{" \o join(", ", [i \in 1..Len(v.elems) |-> repr(v.elems[i])]) \o "}"
      [] v.t = "dict" ->
            "{" \o join(", ", [i \in 1..Len(v.items) |->
                                 "'" \o v.items[i][1] \o "': " \o repr(v.items[i][2])])
            \o "}"

\* str(v)
str(v) ==
    CASE v.t = "str" -> v.s
      [] v.t = "date" -> isoformat(v)
      [] v.t = "datetime" ->
            ZeroPad(IntToStr(v.year), 4) \o "-" \o ZeroPad(IntToStr(v.month), 2)
            \o "-" \o ZeroPad(IntToStr(v.day), 2) \o " "
            \o ZeroPad(IntToStr(v.hour), 2) \o ":" \o ZeroPad(IntToStr(v.minute), 2)
            \o ":" \o ZeroPad(IntToStr(v.second), 2)
      [] OTHER -> repr(v)

\* str.lower()
RECURSIVE lower(_)
lower(s) ==
    IF s = "" THEN ""
    ELSE LET c == CharAt(s, 1)
             n == CodePoint(c)
         IN  (IF n >= 65 /\ n <= 90 THEN Chr(n + 32) ELSE c) \o lower(Tail(s))

\* json.dumps(b) of a bool
json_dumps(b) == IF b THEN "true" ELSE "false"

IsAlnum(c) ==
    LET n == CodePoint(c)
    IN  (n >= 48 /\ n <= 57) \/ (n >= 65 /\ n <= 90) \/ (n >= 97 /\ n <= 122)

Contains(s, c) == \E i \in 1..Len(s) : CharAt(s, i) = c

HexDigit(n) == CharAt("0123456789ABCDEF", n + 1)

\* urllib.parse.quote(s, safe): the characters quote never escapes are the
\* alphanumerics and "_.-~"; every other character not in safe becomes %XX
RECURSIVE quote(_, _)
quote(s, safe) ==
    IF s = "" THEN ""
    ELSE LET c == CharAt(s, 1)
             n == CodePoint(c)
         IN  (IF IsAlnum(c) \/ Contains("_.-~", c) \/ Contains(safe, c)
              THEN c
              ELSE "%" \o HexDigit(n \div 16) \o HexDigit(n % 16))
             \o quote(Tail(s), safe)

\* urllib.parse.quote_plus(s, safe): as quote, with each space made "+"
RECURSIVE quote_plus(_, _)
quote_plus(s, safe) ==
    IF s = "" THEN ""
    ELSE (IF CharAt(s, 1) = " " THEN "+" ELSE quote(CharAt(s, 1), safe))
         \o quote_plus(Tail(s), safe)

(***************************************************************************)
(* mws/utils/params.py: clean_value and the cleaners it calls              *)
(***************************************************************************)
clean_string_plus(val) == quote_plus(val, "-_.~")
clean_string_keep_percent(val) == quote(val, "-_.~%")
clean_string(val) == quote(val, "-_.~")

\* val is a bool, so the ValueError of line 171 is never raised
clean_bool(val) == json_dumps(val.b)

clean_date(val) == clean_string(isoformat(val))

\* line 148: isinstance(val, (dict, list, set, tuple))
IsContainerNoTuple(val) == val.t \in {"dict", "list", "set"}
IsContainer(val) == val.t \in {"dict", "list", "set", "tuple"}

clean_value(val) ==
    IF IsContainer(val) THEN Raise("ValueError")
    ELSE IF val.t \in {"datetime", "date"} THEN Return(PyStr(clean_date(val)))
    ELSE IF val.t = "bool" THEN Return(PyStr(clean_bool(val)))
    ELSE Return(PyStr(clean_string(str(val))))

\* the entries whose value is truthy
TruthyParams(d) ==
    SelectSeq(d, LAMBDA kv : kv[2] \notin {PyNone, PyStr(""), PyInt(0), PyBool(FALSE)})

\* lines 94 and 135: the entries whose value is neither None nor ""
NonEmptyParams(d) ==
    SelectSeq(d, LAMBDA kv : kv[2] # PyNone /\ kv[2] # PyStr(""))

\* lines 137-143: the loop over params.items(); a ValueError of clean_value
\* is raised again as MWSError
RECURSIVE CleanParamsDictLoop(_, _)
CleanParamsDictLoop(items, cleaned_params) ==
    IF items = <<>> THEN Return(cleaned_params)
    ELSE LET r == clean_value(Head(items)[2])
         IN  IF r.exc = "ValueError" THEN Raise("MWSError")
             ELSE CleanParamsDictLoop(Tail(items),
                                      DictSet(cleaned_params, Head(items)[1], r.ret))

clean_params_dict(d) == CleanParamsDictLoop(NonEmptyParams(d), <<>>)

(***************************************************************************)
(* mws/mws.py: clean_params                                                *)
(***************************************************************************)
\* line 98: isinstance(value, (dict, list, set, tuple))
IsContainerParam(val) == val.t \in {"dict", "list", "set", "tuple"}

\* lines 106-107: a bool becomes str(value).lower()
BoolToStrNoLower(val) == str(val)
BoolToStr(val) == lower(str(val))

\* lines 104-110: one value of clean_params, past the type check
CleanParam(val) ==
    LET dated == IF val.t \in {"datetime", "date"} THEN PyStr(isoformat(val)) ELSE val
        booled == IF dated.t = "bool" THEN PyStr(BoolToStr(dated)) ELSE dated
    IN  PyStr(quote(str(booled), "-_.~"))

\* lines 96-111: the loop over params.items()
RECURSIVE CleanParamsLoop(_, _)
CleanParamsLoop(items, params_enc) ==
    IF items = <<>> THEN Return(params_enc)
    ELSE IF IsContainerParam(Head(items)[2]) THEN Raise("MWSError")
    ELSE CleanParamsLoop(Tail(items),
                         DictSet(params_enc, Head(items)[1], CleanParam(Head(items)[2])))

clean_params(d) == CleanParamsLoop(NonEmptyParams(d), <<>>)

(***************************************************************************)
(* mws/utils/params.py: enumerate_param, enumerate_params and              *)
(* enumerate_keyed_param                                                   *)
(***************************************************************************)
\* bool(v)
Truthy(v) ==
    CASE v.t = "NoneType" -> FALSE
      [] v.t = "bool" -> v.b
      [] v.t = "int" -> v.n # 0
      [] v.t = "str" -> v.s # ""
      [] v.t = "dict" -> v.items # <<>>
      [] v.t \in {"list", "tuple", "set"} -> v.elems # <<>>
      [] v.t = "range" -> v.stop > 0
      [] OTHER -> TRUE

\* lines 24-26 and 80-82: a value that is no list, tuple or set becomes [value]
Coerced(values) ==
    IF values.t \in {"list", "tuple", "set"} THEN values.elems ELSE <<values>>

\* any(values)
any(elems) == \E i \in 1..Len(elems) : Truthy(elems[i])

\* lines 30-32 and 86-88: param ends in "." afterwards
WithDot(param) == IF EndsWith(param, ".") THEN param ELSE param \o "."

enumerate_param(param, values) ==
    LET elems == Coerced(values)
    IN  IF ~any(elems) THEN Return(<<>>)
        ELSE Return([idx \in 1..Len(elems) |->
                       <<WithDot(param) \o IntToStr(idx), elems[idx]>>])

\* lines 44-46: the loop over params.items()
RECURSIVE EnumerateParamsLoop(_, _)
EnumerateParamsLoop(items, params_output) ==
    IF items = <<>> THEN params_output
    ELSE EnumerateParamsLoop(
             Tail(items),
             DictUpdate(params_output, enumerate_param(Head(items)[1], Head(items)[2]).ret))

enumerate_params(d) ==
    IF d.t # "dict" THEN Return(<<>>)
    ELSE Return(EnumerateParamsLoop(d.items, <<>>))

\* lines 96-99: "{param}{idx}.{key}" -> v for the items of one dict
KeyedItems(param, idx, val_dict) ==
    [j \in 1..Len(val_dict.items) |->
        <<param \o IntToStr(idx) \o "." \o val_dict.items[j][1], val_dict.items[j][2]>>]

\* lines 93-100: the loop that builds the output
RECURSIVE EnumerateKeyedLoop(_, _, _, _)
EnumerateKeyedLoop(elems, idx, param, output) ==
    IF idx > Len(elems) THEN output
    ELSE EnumerateKeyedLoop(elems, idx + 1, param,
                            DictUpdate(output, KeyedItems(param, idx, elems[idx])))

enumerate_keyed_param(param, values) ==
    LET elems == Coerced(values)
    IN  IF ~any(elems) THEN Return(<<>>)
        ELSE IF \E i \in 1..Len(elems) : elems[i].t # "dict" THEN Raise("ValueError")
        ELSE Return(EnumerateKeyedLoop(elems, 1, WithDot(param), <<>>))

(***************************************************************************)
(* mws/utils/params.py: flat_param_dict                                    *)
(***************************************************************************)
\* lines 251-261: a str, or a value that is neither dict nor Iterable
BaseCaseNoKey(val, pfx) == Return(<< <<pfx, val>> >>)
BaseCaseCleaned(val, pfx) ==
    IF pfx # "" THEN Return(<< <<pfx, clean_value(val).ret>> >>) ELSE Raise("ValueError")
BaseCase(val, pfx) ==
    IF pfx # "" THEN Return(<< <<pfx, val>> >>) ELSE Raise("ValueError")

\* lines 266-267: the prefix the children's keys are appended to
Dotted(pfx) == IF pfx # "" /\ ~EndsWith(pfx, ".") THEN pfx \o "." ELSE pfx

\* line 277: the segment of the element enumerate() gives index idx (0-based)
IndexSegmentZeroBased(idx) == IntToStr(idx)
IndexSegment(idx) == IntToStr(idx + 1)

\* lines 273 and 278: output.update(sub)
MergeOverwrite(output, sub) == sub
Merge(output, sub) == DictUpdate(output, sub)

RECURSIVE flat_param_dict(_, _)
RECURSIVE FlatDictLoop(_, _, _)
RECURSIVE FlatIterLoop(_, _, _, _)

\* lines 271-273: the loop over value.items(), from the pairs left and the
\* output so far; an exception of a recursive call leaves the loop
FlatDictLoop(items, pfx, output) ==
    IF items = <<>> THEN Return(output)
    ELSE LET new_key == pfx \o Head(items)[1]
             sub == flat_param_dict(Head(items)[2], new_key)
         IN  IF sub.exc # "" THEN sub
             ELSE FlatDictLoop(Tail(items), pfx, Merge(output, sub.ret))

\* lines 276-278: the loop over enumerate(value)
FlatIterLoop(elems, idx, pfx, output) ==
    IF idx >= Len(elems) THEN Return(output)
    ELSE LET new_key == pfx \o IndexSegment(idx)
             sub == flat_param_dict(elems[idx + 1], new_key)
         IN  IF sub.exc # "" THEN sub
             ELSE FlatIterLoop(elems, idx + 1, pfx, Merge(output, sub.ret))

flat_param_dict(val, pfx) ==
    IF IsStr(val) \/ ~(IsDict(val) \/ IsIterable(val))
    THEN BaseCase(val, pfx)
    ELSE IF IsDict(val)
         THEN FlatDictLoop(val.items, Dotted(pfx), <<>>)
         ELSE FlatIterLoop(IterElems(val), 0, Dotted(pfx), <<>>)

(***************************************************************************)
(* mws/mws.py: calc_request_description                                    *)
(***************************************************************************)
\* a < b of two str: by code point, character by character
RECURSIVE StrLess(_, _)
StrLess(a, b) ==
    IF b = "" THEN FALSE
    ELSE IF a = "" THEN TRUE
    ELSE IF CharAt(a, 1) = CharAt(b, 1) THEN StrLess(Tail(a), Tail(b))
    ELSE CodePoint(CharAt(a, 1)) < CodePoint(CharAt(b, 1))

\* sorted(keys): a key is put after the keys that are not greater than it
RECURSIVE Insert(_, _)
Insert(k, srt) ==
    IF srt = <<>> THEN <<k>>
    ELSE IF StrLess(k, Head(srt)) THEN <<k>> \o srt
    ELSE <<Head(srt)>> \o Insert(k, Tail(srt))

RECURSIVE InsertAll(_, _)
InsertAll(keys, srt) ==
    IF keys = <<>> THEN srt ELSE InsertAll(Tail(keys), Insert(Head(keys), srt))

\* line 84: sorted(params.keys())
Unsorted(keys) == keys
sorted(keys) == InsertAll(keys, <<>>)

\* line 86: "{}={}".format(item, encoded_val)
FormatItemQuoted(item, encoded_val) == item \o "=" \o quote(str(encoded_val), "-_.~")
FormatItem(item, encoded_val) == item \o "=" \o str(encoded_val)

calc_request_description(d) ==
    LET keys == sorted(KeysOf(d))
        description_items == [i \in 1..Len(keys) |-> FormatItem(keys[i], DictGet(d, keys[i]))]
    IN  join("&", description_items)

(***************************************************************************)
(* mws/mws.py: class MWS                                                   *)
(***************************************************************************)
\* Marketplaces[region].endpoint, for the regions of the model
Endpoint(region) ==
    CASE region = "US" -> "https://mws.amazonservices.com"
      [] region = "UK" -> "https://mws-eu.amazonservices.com"
      [] region = "JP" -> "https://mws.amazonservices.jp"

\* MWS(access_key, secret_key, account_id, region, uri, version, auth_token)
\* with a region of Marketplaces: the fields __init__ sets
MWS(access_key, secret_key, account_id, region, uri, version, auth_token) ==
    [access_key |-> access_key, secret_key |-> secret_key, account_id |-> account_id,
     auth_token |-> auth_token,
     version |-> IF version # "" THEN version ELSE "2009-01-01",
     uri |-> IF uri # "" THEN uri ELSE "/",
     domain |-> Endpoint(region),
     _test_request_params |-> FALSE]

\* other.update(target), written where target.update(other) was meant
UpdateOther(target, other) == [target |-> target, other |-> DictUpdate(other, target)]

\* line 287: target.update(other), as the two dicts after the statement
Update(target, other) == [target |-> DictUpdate(target, other), other |-> other]

\* get_default_params; timestamp is what utc_timestamp() returns
get_default_params(client, timestamp) ==
    LET base == << <<"AWSAccessKeyId", PyStr(client.access_key)>>,
                   <<"SellerId", PyStr(client.account_id)>>,
                   <<"SignatureVersion", PyStr("2")>>,
                   <<"Timestamp", PyStr(timestamp)>>,
                   <<"Version", PyStr(client.version)>>,
                   <<"SignatureMethod", PyStr("HmacSHA256")>> >>
    IN  IF client.auth_token # ""
        THEN DictSet(base, "MWSAuthToken", PyStr(client.auth_token))
        ELSE base

\* s.replace(old, new)
RECURSIVE replace(_, _, _)
replace(s, old, new) ==
    IF s = "" THEN ""
    ELSE IF Len(s) >= Len(old) /\ SubSeq(s, 1, Len(old)) = old
    THEN new \o replace(SubSeq(s, Len(old) + 1, Len(s)), old, new)
    ELSE CharAt(s, 1) \o replace(Tail(s), old, new)

\* base64.b64encode(hmac.new(key, msg, hashlib.sha256).digest()): the digest
\* is kept as the key and the message it is of
hmac_sha256_base64(key, msg) == [key |-> key, msg |-> msg]

\* the string that is signed, the scheme of the domain left in place
SigDataWithScheme(client, meth, description) ==
    join("\n", <<meth, lower(client.domain), client.uri, description>>)

\* the string that is signed, the method left out
SigDataNoMethod(client, meth, description) ==
    join("\n", <<lower(replace(client.domain, "https://", "")), client.uri, description>>)

\* lines 411-418: the string that is signed
SigData(client, meth, description) ==
    join("\n", <<meth, lower(replace(client.domain, "https://", "")), client.uri,
                 description>>)

calc_signature(client, meth, description) ==
    hmac_sha256_base64(client.secret_key, SigData(client, meth, description))

\* lines 297-302: the url, as its text up to the signature and the signature
\* that quote() then writes after it
FormatUrl(client, description, sig) ==
    [text |-> client.domain \o client.uri \o "?" \o description \o "&Signature=",
     signature |-> sig]

\* lines 285-302: make_request as one call, up to the url that is handed to
\* requests.request: what it returns or raises, and extra_data after the call
make_request(client, extra_data, meth, timestamp) ==
    LET u == Update(get_default_params(client, timestamp), extra_data)
        cleaned == clean_params(u.target)
        description == calc_request_description(cleaned.ret)
    IN  [extra_data |-> u.other,
         out |-> IF cleaned.exc # "" THEN cleaned
                 ELSE IF client._test_request_params THEN cleaned
                 ELSE Return(FormatUrl(client, description,
                                       calc_signature(client, meth, description)))]

(***************************************************************************)
(* mws/mws.py: RequestParameter                                            *)
(***************************************************************************)
_val_is_str(val) == IsStr(val)
_val_is_dict(val) == IsDict(val)
_val_is_iterable(val) ==
    IF _val_is_dict(val) \/ _val_is_str(val) THEN FALSE ELSE IsIterable(val)

\* validate, called by __init__: TRUE when it raises ValueError
validate(key, val) ==
    key = "" /\ ~_val_is_dict(val) /\ ~_val_is_iterable(val)

param_key(key) ==
    IF key # "" THEN (IF ~EndsWith(key, ".") THEN key \o "." ELSE key) ELSE ""

RECURSIVE to_dict(_, _)
RECURSIVE keyed_value(_, _, _)
RECURSIVE enumerated_value(_, _, _, _)

\* RequestParameter(key, value).to_dict(): __init__ (validate), then to_dict
RequestParameter_to_dict(key, val) ==
    IF validate(key, val) THEN Raise("ValueError") ELSE to_dict(key, val)

\* the loop of keyed_value over self.value.items()
keyed_value(items, key, output) ==
    IF items = <<>> THEN Return(output)
    ELSE LET new_key == param_key(key) \o Head(items)[1]
             sub == IF validate(new_key, Head(items)[2])
                    THEN Raise("ValueError")
                    ELSE to_dict(new_key, Head(items)[2])
         IN  IF sub.exc # "" THEN sub
             ELSE keyed_value(Tail(items), key, DictUpdate(output, sub.ret))

\* the loop of enumerated_value over enumerate(self.value)
enumerated_value(elems, idx, key, output) ==
    IF idx >= Len(elems) THEN Return(output)
    ELSE LET new_key == param_key(key) \o IntToStr(idx + 1)
             sub == IF validate(new_key, elems[idx + 1])
                    THEN Raise("ValueError")
                    ELSE to_dict(new_key, elems[idx + 1])
         IN  IF sub.exc # "" THEN sub
             ELSE enumerated_value(elems, idx + 1, key, DictUpdate(output, sub.ret))

to_dict(key, val) ==
    IF val = PyNone THEN Return(<<>>)
    ELSE IF _val_is_dict(val) THEN keyed_value(val.items, key, <<>>)
    ELSE IF _val_is_iterable(val) THEN enumerated_value(IterElems(val), 0, key, <<>>)
    ELSE Return(<<<<key, val>>>>)


(***************************************************************************)
(* The nested values a caller passes.  The caller builds a value entry by  *)
(* entry, value[k] = c or value.append(c), up to MaxNodes nodes, over      *)
(* Leaves and Keys; the examples of the docstrings are given whole.        *)
(***************************************************************************)
Leaves == {PyInt(1), PyStr("x y"), PyNone}
Keys == <<"", "a", "a.b", "b">>
Prefixes == {"", "p", "p."}

\* what a caller starts from, and what it adds as a new entry
Atoms == Leaves \cup {PyList(<<>>), PyDict(<<>>)}

RECURSIVE Size(_)
RECURSIVE SizeOfAll(_)
SizeOfAll(vs) == IF vs = <<>> THEN 0 ELSE Size(Head(vs)) + SizeOfAll(Tail(vs))
Size(v) ==
    IF v.t = "dict" THEN 1 + SizeOfAll([i \in 1..Len(v.items) |-> v.items[i][2]])
    ELSE IF v.t \in {"list", "tuple", "set"} THEN 1 + SizeOfAll(v.elems)
    ELSE 1

\* the index in Keys of a key
KeyIndex(k) == CHOOSE i \in 1..Len(Keys) : Keys[i] = k

\* the values one more entry makes of v: the entry is appended to a list of
\* v, or set in a dict of v under a key that follows the dict's keys in Keys
RECURSIVE Grow(_)
Grow(v) ==
    IF v.t = "list"
    THEN {PyList(Append(v.elems, c)) : c \in Atoms}
         \cup UNION {{PyList([v.elems EXCEPT ![i] = w]) : w \in Grow(v.elems[i])}
                     : i \in 1..Len(v.elems)}
    ELSE IF v.t = "dict"
    THEN {PyDict(Append(v.items, <<Keys[n], c>>))
            : n \in {m \in 1..Len(Keys) :
                       \A i \in 1..Len(v.items) : KeyIndex(v.items[i][1]) < m},
              c \in Atoms}
         \cup UNION {{PyDict([v.items EXCEPT ![i] = <<v.items[i][1], w>>])
                        : w \in Grow(v.items[i][2])}
                     : i \in 1..Len(v.items)}
    ELSE {}

ExampleNested ==
    PyDict(<< <<"a", PyInt(1)>>,
              <<"c", PyList(<<PyStr("foo"), PyDict(<< <<"what", PyStr("have")>> >>)>>)>> >>)

Examples ==
    { <<ExampleNested, "example">>,
      <<ExampleNested, "">>,
      <<PyList(<<PyStr("x"), PyStr("y")>>), "List">>,
      <<PyDict(<< <<"a", PyInt(1)>>, <<"b", PyNone>> >>), "">>,
      <<PyTuple(<<PyStr("x"), PyRange(2)>>), "List.">> }

(***************************************************************************)
(* SpecFlatten: a caller flattens one nested value, with flat_param_dict   *)
(* or with RequestParameter(key, value).to_dict().                         *)
(***************************************************************************)
InitFlatten ==
    /\ pc = "start"
    /\ \/ value \in Atoms /\ prefix \in Prefixes
       \/ \E e \in Examples : value = e[1] /\ prefix = e[2]
    /\ result = NoResult
    /\ NoRequest

AddEntry ==
    /\ pc = "start"
    /\ Size(value) < MaxNodes
    /\ value' \in Grow(value)
    /\ UNCHANGED <<pc, prefix, result>>
    /\ UNCHANGED reqvars

CallFlatParamDict ==
    /\ pc = "start"
    /\ pc' = "flat_param_dict"
    /\ result' = flat_param_dict(value, prefix)
    /\ UNCHANGED <<value, prefix>>
    /\ UNCHANGED reqvars

CallToDict ==
    /\ pc = "start"
    /\ pc' = "to_dict"
    /\ result' = RequestParameter_to_dict(prefix, value)
    /\ UNCHANGED <<value, prefix>>
    /\ UNCHANGED reqvars

NextFlatten == AddEntry \/ CallFlatParamDict \/ CallToDict

SpecFlatten == InitFlatten /\ [][NextFlatten]_vars

(***************************************************************************)
(* The vocabulary of the flattening claims, defined on the nested value    *)
(* alone: its terminals (the leaves that are neither mapping nor sequence) *)
(* and the path of segments that leads to each.                            *)
(***************************************************************************)
IsTerminal(v) == v.t \notin {"dict", "list", "tuple", "set", "range"}

\* the <<segment, child>> pairs of a container: a mapping's keys verbatim, a
\* sequence's 1-based positions in decimal
Children(v) ==
    IF v.t = "dict" THEN v.items
    ELSE [i \in 1..Len(IterElems(v)) |-> <<IntToStr(i), IterElems(v)[i]>>]

RECURSIVE Terminals(_)
RECURSIVE TerminalsOfChildren(_)
TerminalsOfChildren(cs) ==
    IF cs = <<>> THEN <<>>
    ELSE LET below == Terminals(Head(cs)[2])
         IN  [i \in 1..Len(below) |->
                [path |-> <<Head(cs)[1]>> \o below[i].path, leaf |-> below[i].leaf]]
             \o TerminalsOfChildren(Tail(cs))
Terminals(v) ==
    IF IsTerminal(v) THEN << [path |-> <<>>, leaf |-> v] >>
    ELSE TerminalsOfChildren(Children(v))

\* the key of a path: each level joined by ".", the segment alone when the
\* prefix is empty
RECURSIVE JoinDotted(_, _)
JoinDotted(pfx, path) ==
    IF path = <<>> THEN pfx
    ELSE JoinDotted((IF pfx = "" THEN "" ELSE pfx \o ".") \o Head(path), Tail(path))

\* the same, with no "." added to a prefix that already ends in "."
RECURSIVE JoinKey(_, _)
JoinKey(pfx, path) ==
    IF path = <<>> THEN pfx
    ELSE JoinKey((IF pfx = "" \/ EndsWith(pfx, ".") THEN pfx ELSE pfx \o ".")
                 \o Head(path), Tail(path))

NoneFree(v) == \A i \in 1..Len(Terminals(v)) : Terminals(v)[i].leaf # PyNone

\* every mapping key on the way to a terminal is non-empty and holds no "."
PlainKeys(v) ==
    \A i \in 1..Len(Terminals(v)) :
        \A j \in 1..Len(Terminals(v)[i].path) :
            LET seg == Terminals(v)[i].path[j]
            IN  seg # "" /\ ~Contains(seg, ".")

\* a terminal is reached with nothing to name it
ReachedWithoutKey(v, pfx) ==
    /\ pfx = ""
    /\ \E i \in 1..Len(Terminals(v)) :
          \A j \in 1..Len(Terminals(v)[i].path) : Terminals(v)[i].path[j] = ""

\* a sequence without its repeated elements, first occurrences kept
RECURSIVE Dedup(_)
Dedup(s) ==
    IF s = <<>> THEN <<>>
    ELSE LET front == Dedup(SubSeq(s, 1, Len(s) - 1))
         IN  IF \E i \in 1..Len(front) : front[i] = s[Len(s)]
             THEN front ELSE Append(front, s[Len(s)])

Flattened == pc \in {"flat_param_dict", "to_dict"}

\* the terminals a flattener gives a key: to_dict gives None none
Emitted ==
    SelectSeq(Terminals(value), LAMBDA t : pc # "to_dict" \/ t.leaf # PyNone)

C2_KeysJoinedByDot ==
    (Flattened /\ result.exc = "")
        => \A i \in 1..Len(result.ret) :
              \E j \in 1..Len(Terminals(value)) :
                  result.ret[i][1] = JoinDotted(prefix, Terminals(value)[j].path)

\* C2, amended: the keys of the flat map are, in the order of the terminals,
\* the prefix and the path segments of each terminal given a key (a mapping
\* key verbatim, a sequence position 1-based in decimal), each level joined
\* as prefix + "." + segment, or as prefix + segment when the prefix is empty
\* or already ends in ".".
C2_KeysJoinedByOneDot ==
    /\ (Flattened /\ result.exc = "")
          => KeysOf(result.ret)
               = Dedup([i \in 1..Len(Emitted) |-> JoinKey(prefix, Emitted[i].path)])
    /\ (Flattened /\ value = PyList(<<PyStr("x"), PyStr("y")>>) /\ prefix = "List")
          => KeysOf(result.ret) = <<"List.1", "List.2">>

C2_Witness ==
    /\ pc = "flat_param_dict"
    /\ value = PyList(<<PyStr("x"), PyStr("y")>>) /\ prefix = "List"
    /\ result = Return(<< <<"List.1", PyStr("x")>>, <<"List.2", PyStr("y")>> >>)

(***************************************************************************)
(* C3.  As claimed: every value of the flat map is the cleaned string form *)
(* of the terminal scalar at its key's path.                               *)
(***************************************************************************)
C3_ValuesAreCleaned ==
    (Flattened /\ result.exc = "" /\ NoneFree(value))
        => \A i \in 1..Len(result.ret) :
              \E j \in 1..Len(Terminals(value)) :
                  /\ result.ret[i][1] = JoinKey(prefix, Terminals(value)[j].path)
                  /\ Return(result.ret[i][2]) = clean_value(Terminals(value)[j].leaf)

\* C3, amended: every value of the flat map is the terminal scalar at its
\* key's path as the caller gave it, not cleaned: the example yields
\* {"example.a": 1, "example.c.1": "foo", "example.c.2.what": "have"}.
C3_ValuesAreRaw ==
    /\ (Flattened /\ result.exc = "")
          => \A i \in 1..Len(result.ret) :
                \E j \in 1..Len(Terminals(value)) :
                    /\ result.ret[i][1] = JoinKey(prefix, Terminals(value)[j].path)
                    /\ result.ret[i][2] = Terminals(value)[j].leaf
    /\ (Flattened /\ value = ExampleNested /\ prefix = "example")
          => result = Return(<< <<"example.a", PyInt(1)>>,
                                <<"example.c.1", PyStr("foo")>>,
                                <<"example.c.2.what", PyStr("have")>> >>)

C3_Witness ==
    /\ pc = "to_dict" /\ value = ExampleNested /\ prefix = "example"
    /\ DictGet(result.ret, "example.a") = PyInt(1)

(***************************************************************************)
(* C4.  As claimed: a None is left out of the flat map wherever it stands, *)
(* and no error is raised for it.                                          *)
(***************************************************************************)
C4_NoneOmitted ==
    Flattened
        => /\ result.exc = ""
                => \A i \in 1..Len(result.ret) : result.ret[i][2] # PyNone
           /\ result.exc # ""
                => \E j \in 1..Len(Terminals(value)) :
                      /\ Terminals(value)[j].leaf # PyNone
                      /\ JoinKey(prefix, Terminals(value)[j].path) = ""

\* RequestParameter.to_dict alone leaves every None out of the map it returns.
C4_ToDictOmitsNone ==
    (pc = "to_dict" /\ result.exc = "")
        => \A i \in 1..Len(result.ret) : result.ret[i][2] # PyNone

(***************************************************************************)
(* C5.  Flattening raises ValueError exactly when a terminal is reached    *)
(* while the accumulated prefix is empty, and then returns no map; with a  *)
(* non-empty prefix flat_param_dict maps a terminal to {prefix: value}.    *)
(***************************************************************************)
C5_MissingKeyError ==
    /\ Flattened
          => /\ result.exc \in {"", "ValueError"}
             /\ result.exc = "ValueError" <=> ReachedWithoutKey(value, prefix)
             /\ result.exc = "ValueError" => result.ret = <<>>
    /\ (pc = "flat_param_dict" /\ IsTerminal(value) /\ prefix # "")
          => result = Return(<< <<prefix, value>> >>)

C5_Witness ==
    /\ Flattened /\ result.exc = "ValueError"
    /\ value.t = "dict" /\ Len(value.items) = 2

(***************************************************************************)
(* SpecClean: a caller cleans one value, alone with clean_value or as the  *)
(* one entry of a dict with clean_params_dict or clean_params.  A string   *)
(* is typed character by character, up to MaxStrLen characters.            *)
(***************************************************************************)
CleanChars == {"a", "Z", "9", "-", "_", ".", "~", " ", "/", "%", "+"}

CleanStart ==
    { PyStr(""), PyInt(0), PyInt(-12), PyBool(TRUE), PyBool(FALSE), PyNone,
      PyDate(2020, 1, 2), PyDateTime(2020, 1, 2, 3, 4, 5),
      PyDict(<<>>), PyDict(<< <<"a", PyInt(1)>> >>), PyList(<<PyInt(1)>>),
      PyTuple(<<PyInt(1)>>), PySet(<<PyInt(1)>>), PyRange(2) }

InitClean ==
    /\ pc = "start"
    /\ value \in CleanStart
    /\ prefix = "k"
    /\ result = NoResult
    /\ NoRequest

TypeChar ==
    /\ pc = "start"
    /\ value.t = "str"
    /\ Len(value.s) < MaxStrLen
    /\ \E c \in CleanChars : value' = PyStr(value.s \o c)
    /\ UNCHANGED <<pc, prefix, result>>
    /\ UNCHANGED reqvars

CallCleanValue ==
    /\ pc = "start"
    /\ pc' = "clean_value"
    /\ result' = clean_value(value)
    /\ UNCHANGED <<value, prefix>>
    /\ UNCHANGED reqvars

CallCleanParamsDict ==
    /\ pc = "start"
    /\ pc' = "clean_params_dict"
    /\ result' = clean_params_dict(<< <<prefix, value>> >>)
    /\ UNCHANGED <<value, prefix>>
    /\ UNCHANGED reqvars

CallCleanParams ==
    /\ pc = "start"
    /\ pc' = "clean_params"
    /\ result' = clean_params(<< <<prefix, value>> >>)
    /\ UNCHANGED <<value, prefix>>
    /\ UNCHANGED reqvars

\* the caller gives the string clean_value returned to clean_value again
CallCleanValueAgain ==
    /\ pc = "clean_value"
    /\ value.t = "str"
    /\ result.exc = ""
    /\ pc' = "clean_value_again"
    /\ value' = result.ret
    /\ result' = clean_value(result.ret)
    /\ UNCHANGED prefix
    /\ UNCHANGED reqvars

NextClean ==
    \/ TypeChar
    \/ CallCleanValue
    \/ CallCleanParamsDict
    \/ CallCleanParams
    \/ CallCleanValueAgain

SpecClean == InitClean /\ [][NextClean]_vars

Cleaned == pc \in {"clean_value", "clean_params_dict", "clean_params"}

\* a cleaning call returned a string: clean_value the string itself, the
\* dict cleaners the one-entry dict that holds it
ReturnedStr ==
    /\ result.exc = ""
    /\ IF pc = "clean_value" THEN result.ret.t = "str"
       ELSE Len(result.ret) = 1 /\ result.ret[1][1] = prefix /\ result.ret[1][2].t = "str"

\* the string a cleaning call returned
CleanedStr == IF pc = "clean_value" THEN result.ret.s ELSE result.ret[1][2].s

\* the dict cleaners drop a None or "" before cleaning
Dropped == pc # "clean_value" /\ value \in {PyNone, PyStr("")}

(***************************************************************************)
(* C8.  As claimed: cleaning fails for every value that is not a scalar    *)
(* (string, number, boolean, date, datetime) and returns a string only for *)
(* scalars.                                                                *)
(***************************************************************************)
C8_NonScalarsRejected ==
    (Cleaned /\ value # PyNone /\ ~Dropped)
        => IF value.t \in {"str", "int", "bool", "date", "datetime"}
           THEN ReturnedStr
           ELSE result.exc # ""

\* C8, amended: cleaning fails (ValueError from clean_value, MWSError from
\* clean_params_dict and clean_params) exactly for a dict, list, set or
\* tuple; for every other value, scalar or not (a range, say), it returns
\* a string.
C8_ContainersRejected ==
    (Cleaned /\ ~Dropped)
        => IF value.t \in {"dict", "list", "set", "tuple"}
           THEN result = Raise(IF pc = "clean_value" THEN "ValueError" ELSE "MWSError")
           ELSE ReturnedStr

C8_Witness ==
    /\ pc = "clean_value" /\ value = PyTuple(<<PyInt(1)>>)
    /\ result = Raise("ValueError")

(***************************************************************************)
(* C9.  Both cleaners map True to "true" and False to "false".             *)
(***************************************************************************)
C9_BoolsLowercase ==
    (Cleaned /\ value.t = "bool")
        => /\ ReturnedStr
           /\ CleanedStr = (IF value.b THEN "true" ELSE "false")

C9_Witness ==
    /\ pc = "clean_params" /\ value = PyBool(TRUE)
    /\ result = Return(<< <<"k", PyStr("true")>> >>)

(***************************************************************************)
(* C10.  For a string or number, cleaning returns its string form with     *)
(* each alphanumeric and each of - _ . ~ unchanged and every other         *)
(* character replaced by a percent-escape; a space becomes %20, never +.   *)
(***************************************************************************)
IsUnreserved(c) == IsAlnum(c) \/ c \in {"-", "_", ".", "~"}

HexValue(c) == (CHOOSE i \in 1..16 : CharAt("0123456789ABCDEF", i) = c) - 1

\* the string a percent-encoded string stands for
RECURSIVE Unquote(_)
Unquote(s) ==
    IF s = "" THEN ""
    ELSE IF CharAt(s, 1) = "%" /\ Len(s) >= 3
    THEN Chr(16 * HexValue(CharAt(s, 2)) + HexValue(CharAt(s, 3)))
         \o Unquote(SubSeq(s, 4, Len(s)))
    ELSE CharAt(s, 1) \o Unquote(Tail(s))

\* r is s with exactly the characters that are not unreserved escaped
IsEscapeOf(r, s) ==
    /\ \A i \in 1..Len(r) : IsUnreserved(CharAt(r, i)) \/ CharAt(r, i) = "%"
    /\ Len(r) = Len(s) + 2 * Cardinality({i \in 1..Len(s) : ~IsUnreserved(CharAt(s, i))})
    /\ Unquote(r) = s
    /\ \A i \in 1..Len(s) :
          IsUnreserved(CharAt(s, i)) => \E j \in 1..Len(r) : CharAt(r, j) = CharAt(s, i)

C10_PercentEncoded ==
    /\ (Cleaned /\ value.t \in {"str", "int"} /\ ~Dropped)
          => ReturnedStr /\ IsEscapeOf(CleanedStr, str(value))
    /\ (Cleaned /\ value = PyStr(" ")) => ReturnedStr /\ CleanedStr = "%20"

C10_Witness ==
    /\ pc = "clean_value" /\ value = PyStr("a /")
    /\ result = Return(PyStr("a%20%2F"))

(***************************************************************************)
(* C11.  Cleaning is not idempotent: cleaning the cleaned form of a string *)
(* s gives a different string whenever s holds a character other than an   *)
(* alphanumeric or one of - _ . ~, and the same string when s holds only   *)
(* such characters.                                                        *)
(***************************************************************************)
C11_CleaningNotIdempotent ==
    [][(pc = "clean_value" /\ pc' = "clean_value_again")
          => /\ result'.exc = ""
             /\ (result' # result)
                  <=> (\E i \in 1..Len(value.s) : ~IsUnreserved(CharAt(value.s, i)))]_vars

C11_Witness ==
    /\ pc = "clean_value_again"
    /\ value = PyStr("a%20%2F")
    /\ result = Return(PyStr("a%2520%252F"))

(***************************************************************************)
(* SpecCleanDict: a caller builds a dict of raw parameters entry by entry, *)
(* up to MaxParams entries, and cleans it with clean_params_dict or with   *)
(* clean_params.                                                           *)
(***************************************************************************)
RawKeys == {"a", "b", "c", "d"}
RawVals ==
    {PyNone, PyStr(""), PyInt(0), PyBool(FALSE), PyStr("x y"), PyList(<<PyInt(1)>>)}

InitCleanDict ==
    /\ pc = "start"
    /\ value = PyDict(<<>>)
    /\ prefix = ""
    /\ result = NoResult
    /\ NoRequest

PutParam ==
    /\ pc = "start"
    /\ Len(value.items) < MaxParams
    /\ \E k \in RawKeys \ DictKeys(value.items), v \in RawVals :
          value' = PyDict(DictSet(value.items, k, v))
    /\ UNCHANGED <<pc, prefix, result>>
    /\ UNCHANGED reqvars

CleanDictWithCleanParamsDict ==
    /\ pc = "start"
    /\ pc' = "clean_params_dict"
    /\ result' = clean_params_dict(value.items)
    /\ UNCHANGED <<value, prefix>>
    /\ UNCHANGED reqvars

CleanDictWithCleanParams ==
    /\ pc = "start"
    /\ pc' = "clean_params"
    /\ result' = clean_params(value.items)
    /\ UNCHANGED <<value, prefix>>
    /\ UNCHANGED reqvars

NextCleanDict == PutParam \/ CleanDictWithCleanParamsDict \/ CleanDictWithCleanParams

SpecCleanDict == InitCleanDict /\ [][NextCleanDict]_vars

\* the positions of the entries of d whose value is neither None nor ""
Present(d) == {i \in 1..Len(d) : d[i][2] # PyNone /\ d[i][2] # PyStr("")}

\* the cleaned form of the scalars of RawVals
CleanedForm(v) ==
    CASE v = PyInt(0) -> PyStr("0")
      [] v = PyBool(FALSE) -> PyStr("false")
      [] v = PyStr("x y") -> PyStr("x%20y")

(***************************************************************************)
(* C12.  clean_params_dict and clean_params drop exactly the entries whose *)
(* value is None or "", and such an entry never makes them raise; every    *)
(* other entry (0 and False included) is kept under its key with its       *)
(* cleaned value, so the keys of the output are the input keys whose value *)
(* is neither None nor "".                                                 *)
(***************************************************************************)
C12_DropsNoneAndEmpty ==
    pc \in {"clean_params_dict", "clean_params"}
        => LET d == value.items
           IN  IF \E i \in Present(d) : d[i][2].t = "list"
               THEN result = Raise("MWSError")
               ELSE /\ result.exc = ""
                    /\ Len(result.ret) = Cardinality(Present(d))
                    /\ DictKeys(result.ret) = {d[i][1] : i \in Present(d)}
                    /\ \A i \in Present(d) :
                          DictGet(result.ret, d[i][1]) = CleanedForm(d[i][2])

C12_Witness ==
    /\ pc = "clean_params_dict"
    /\ value = PyDict(<< <<"a", PyNone>>, <<"b", PyInt(0)>>, <<"c", PyStr("")>> >>)
    /\ result = Return(<< <<"b", PyStr("0")>> >>)

(***************************************************************************)
(* SpecCanon: a caller builds a dict of parameters entry by entry, up to   *)
(* MaxParams entries, and has calc_request_description describe it.        *)
(***************************************************************************)
ParamKeys == {"a", "b", "B", "a.10", "a.2", "ab"}
ParamVals == {PyInt(1), PyInt(2), PyStr("x%20y")}

InitCanon ==
    /\ pc = "start"
    /\ value = PyDict(<<>>)
    /\ prefix = ""
    /\ result = NoResult
    /\ NoRequest

SetParam ==
    /\ pc = "start"
    /\ Len(value.items) < MaxParams
    /\ \E k \in ParamKeys \ DictKeys(value.items), v \in ParamVals :
          value' = PyDict(DictSet(value.items, k, v))
    /\ UNCHANGED <<pc, prefix, result>>
    /\ UNCHANGED reqvars

CallCalcRequestDescription ==
    /\ pc = "start"
    /\ pc' = "calc_request_description"
    /\ result' = Return(PyStr(calc_request_description(value.items)))
    /\ UNCHANGED <<value, prefix>>
    /\ UNCHANGED reqvars

NextCanon == SetParam \/ CallCalcRequestDescription

SpecCanon == InitCanon /\ [][NextCanon]_vars

\* a precedes b in code point order: they agree up to a position where a
\* ends or holds the character of the smaller code point
CodepointLess(a, b) ==
    \E i \in 1..Len(b) :
        /\ i <= Len(a) + 1
        /\ SubSeq(a, 1, i - 1) = SubSeq(b, 1, i - 1)
        /\ i = Len(a) + 1 \/ CodePoint(CharAt(a, i)) < CodePoint(CharAt(b, i))

\* the position in d of the entry that r - 1 entries of d precede by key
PositionOfRank(d) ==
    LET before == [i \in 1..Len(d) |->
                     Cardinality({j \in 1..Len(d) : CodepointLess(d[j][1], d[i][1])})]
    IN  [r \in 1..Len(d) |-> CHOOSE i \in 1..Len(d) : before[i] = r - 1]

\* the "key=value" pairs of d joined by "&", keys ascending, values as they are
CanonicalString(d) ==
    LET at == PositionOfRank(d)
    IN  join("&", [r \in 1..Len(d) |-> d[at[r]][1] \o "=" \o str(d[at[r]][2])])

Permuted(d, f) == [i \in 1..Len(d) |-> d[f[i]]]

(***************************************************************************)
(* C6.  calc_request_description returns the "key=value" pairs of the map  *)
(* joined by "&", keys in strictly ascending code point order, each entry  *)
(* once; maps of the same entries in any insertion order give the same     *)
(* string, and {"b": 1, "a": 2} gives "a=2&b=1".                           *)
(***************************************************************************)
C6_SortedByCodepoint ==
    pc = "calc_request_description"
        => /\ result = Return(PyStr(CanonicalString(value.items)))
           /\ \A f \in Permutations(1..Len(value.items)) :
                 calc_request_description(Permuted(value.items, f)) = result.ret.s
           /\ value.items = << <<"b", PyInt(1)>>, <<"a", PyInt(2)>> >>
                 => result.ret.s = "a=2&b=1"

C6_Witness ==
    /\ pc = "calc_request_description"
    /\ value.items = << <<"b", PyInt(1)>>, <<"a.2", PyInt(2)>>, <<"a.10", PyInt(2)>> >>
    /\ result.ret.s = "a.10=2&a.2=2&b=1"

(***************************************************************************)
(* SpecRequest: one call of MWS.make_request(extra_data, method), statement *)
(* by statement, up to the url that is handed to requests.request.         *)
(***************************************************************************)
Clients ==
    { [MWS("AK", c[3], "ACC", c[1], c[2], "", auth_token)
         EXCEPT !._test_request_params = flag]
      : c \in {<<"US", "", "s3cret">>, <<"UK", "/Orders/2013-09-01", "s3cret">>,
               <<"JP", "", "">>},
        auth_token \in {"", "tok"}, flag \in BOOLEAN }

Timestamps == {"2020-01-02T03:04:05", "2021-12-31T23:59:59"}

ExtraKeys == {"Timestamp", "b", "Aa"}
ExtraVals ==
    { PyStr("x y"), PyStr("x%20y"), PyStr(""), PyInt(1), PyBool(TRUE), PyNone,
      PyDate(2020, 1, 2), PyList(<<PyInt(1)>>) }

ExtraDatas ==
    {PyDict(<< <<"Action", PyStr("GetServiceStatus")>> >>)}
    \cup {PyDict(<< <<"Action", PyStr("ListOrders")>>, <<k, v>> >>)
            : k \in ExtraKeys, v \in ExtraVals}
    \cup {PyDict(<< <<k, v>>, <<"Action", PyStr("ListOrders")>> >>)
            : k \in ExtraKeys, v \in {PyStr("x y"), PyNone}}

InitRequest ==
    /\ pc = "start"
    /\ value \in ExtraDatas
    /\ prefix = ""
    /\ result = NoResult
    /\ self \in Clients
    /\ method \in {"GET", "POST"}
    /\ now \in Timestamps
    /\ params = <<>>
    /\ request_description = ""
    /\ signature = NoSignature
    /\ url = NoUrl

\* line 285: params = self.get_default_params()
GetDefaultParams ==
    /\ pc = "start"
    /\ pc' = "get_default_params"
    /\ params' = get_default_params(self, now)
    /\ UNCHANGED <<value, prefix, result, self, method, now,
                   request_description, signature, url>>

\* line 287: params.update(extra_data)
UpdateParams ==
    /\ pc = "get_default_params"
    /\ pc' = "update"
    /\ LET u == Update(params, value.items)
       IN  params' = u.target /\ value' = PyDict(u.other)
    /\ UNCHANGED <<prefix, result, self, method, now,
                   request_description, signature, url>>

\* line 288: params = clean_params(params), which may raise MWSError
CleanParams ==
    /\ pc = "update"
    /\ LET r == clean_params(params)
       IN  IF r.exc # ""
           THEN pc' = "raised" /\ result' = r /\ UNCHANGED params
           ELSE pc' = "clean_params" /\ params' = r.ret /\ UNCHANGED result
    /\ UNCHANGED <<value, prefix, self, method, now,
                   request_description, signature, url>>

\* lines 290-292: the testing flag returns the params
ReturnParams ==
    /\ pc = "clean_params"
    /\ self._test_request_params
    /\ pc' = "return"
    /\ result' = Return(params)
    /\ UNCHANGED <<value, prefix, self, method, now, params,
                   request_description, signature, url>>

\* line 295
CalcRequestDescription ==
    /\ pc = "clean_params"
    /\ ~self._test_request_params
    /\ pc' = "calc_request_description"
    /\ request_description' = calc_request_description(params)
    /\ UNCHANGED <<value, prefix, result, self, method, now, params, signature, url>>

\* line 296
CalcSignature ==
    /\ pc = "calc_request_description"
    /\ pc' = "calc_signature"
    /\ signature' = calc_signature(self, method, request_description)
    /\ UNCHANGED <<value, prefix, result, self, method, now, params,
                   request_description, url>>

\* lines 297-302
BuildUrl ==
    /\ pc = "calc_signature"
    /\ pc' = "url"
    /\ url' = FormatUrl(self, request_description, signature)
    /\ UNCHANGED <<value, prefix, result, self, method, now, params,
                   request_description, signature>>

NextRequest ==
    \/ GetDefaultParams
    \/ UpdateParams
    \/ CleanParams
    \/ ReturnParams
    \/ CalcRequestDescription
    \/ CalcSignature
    \/ BuildUrl

SpecRequest == InitRequest /\ [][NextRequest]_vars

\* the parameters of the request as given: the defaults, then the caller's
RawParams == DictUpdate(get_default_params(self, now), value.items)

\* s ends with the line tl
EndsWithLine(s, tl) ==
    /\ Len(s) > Len(tl)
    /\ SubSeq(s, Len(s) - Len(tl) + 1, Len(s)) = tl
    /\ CharAt(s, Len(s) - Len(tl)) = "\n"

(***************************************************************************)
(* C7.  In make_request every parameter value, default or caller-supplied, *)
(* is cleaned exactly once, before the canonical query string is built;    *)
(* the canonical string holds each cleaned value unchanged; the signature  *)
(* is computed over exactly the canonical string that is placed in the     *)
(* url, and is appended to it afterwards as the Signature parameter.       *)
(***************************************************************************)
C7_CleanedOnceThenSigned ==
    /\ pc \in {"clean_params", "return", "calc_request_description", "calc_signature", "url"}
          => LET kept == NonEmptyParams(RawParams)
             IN  /\ KeysOf(params) = KeysOf(kept)
                 /\ \A i \in 1..Len(params) :
                       Return(params[i][2]) = clean_value(kept[i][2])
    /\ pc \in {"start", "get_default_params", "update", "raised", "clean_params", "return"}
          => request_description = "" /\ signature = NoSignature /\ url = NoUrl
    /\ pc \in {"calc_request_description", "calc_signature", "url"}
          => request_description = CanonicalString(params)
    /\ pc = "calc_request_description" => signature = NoSignature /\ url = NoUrl
    /\ pc \in {"calc_signature", "url"}
          => /\ signature.key = self.secret_key
             /\ EndsWithLine(signature.msg, request_description)
    /\ pc = "calc_signature" => url = NoUrl
    /\ pc = "url"
          => /\ url.text = self.domain \o self.uri \o "?" \o request_description
                           \o "&Signature="
             /\ url.signature = signature

C7_Witness ==
    /\ pc = "url"
    /\ value = PyDict(<< <<"Action", PyStr("ListOrders")>>, <<"b", PyStr("x y")>> >>)
    /\ now = "2020-01-02T03:04:05" /\ self.auth_token = "" /\ method = "POST"
    /\ request_description =
          "AWSAccessKeyId=AK&Action=ListOrders&SellerId=ACC&SignatureMethod=HmacSHA256"
          \o "&SignatureVersion=2&Timestamp=2020-01-02T03%3A04%3A05&Version=2009-01-01"
          \o "&b=x%20y"
    /\ signature.msg = "POST\nmws.amazonservices.com\n/\n" \o request_description

\* the host of a url: what follows its scheme
HostOf(u) ==
    LET i == CHOOSE i \in 1..Len(u) : SubSeq(u, i, i + 2) = "://"
    IN  SubSeq(u, i + 3, Len(u))

\* s holds no capital letter
IsLowercase(s) ==
    \A i \in 1..Len(s) : ~(\E j \in 1..26 : CharAt("ABCDEFGHIJKLMNOPQRSTUVWXYZ", j) = CharAt(s, i))

(***************************************************************************)
(* C13.  The string that is signed is method, "\n", the host of the domain *)
(* without its scheme and in lower case, "\n", the request path, "\n", the *)
(* canonical query string, nothing added and nothing left out; the         *)
(* signature is the base64 HMAC-SHA256 digest of that string under the     *)
(* secret key.                                                             *)
(***************************************************************************)
C13_SigningString ==
    pc \in {"calc_signature", "url"}
        => /\ IsLowercase(HostOf(self.domain))
           /\ signature =
                hmac_sha256_base64(
                    self.secret_key,
                    method \o "\n" \o HostOf(self.domain) \o "\n" \o self.uri \o "\n"
                           \o request_description)

C13_Witness ==
    /\ pc = "calc_signature"
    /\ method = "GET" /\ self.uri = "/Orders/2013-09-01"
    /\ value = PyDict(<< <<"Action", PyStr("GetServiceStatus")>> >>)
    /\ now = "2021-12-31T23:59:59" /\ self.auth_token = "tok"
    /\ signature.key = "s3cret"
    /\ signature.msg =
          "GET\nmws-eu.amazonservices.com\n/Orders/2013-09-01\n"
          \o "AWSAccessKeyId=AK&Action=GetServiceStatus&MWSAuthToken=tok&SellerId=ACC"
          \o "&SignatureMethod=HmacSHA256&SignatureVersion=2"
          \o "&Timestamp=2021-12-31T23%3A59%3A59&Version=2009-01-01"

(***************************************************************************)
(* C14.  As claimed: with an empty secret key signing fails, so no         *)
(* signature is ever produced and no request is ever prepared.             *)
(***************************************************************************)
C14_EmptyKeyNeverSigns ==
    self.secret_key = "" => pc \notin {"calc_signature", "url"}

(***************************************************************************)
(* SpecSign: a caller calls calc_signature on a client, then calls it      *)
(* again with the same or other arguments; result keeps the first call.    *)
(***************************************************************************)
SignClients ==
    { MWS("AK", secret_key, "ACC", region, uri, "", "")
      : secret_key \in {"s3cret", "0ther"}, region \in {"US", "UK", "JP"},
        uri \in {"", "/Orders/2013-09-01"} }

SignDescriptions == {"Timestamp=1", "Timestamp=2", "A=1&Timestamp=1"}

\* one call of calc_signature: its arguments and what it returned
SignCall(client, meth, description, sig) ==
    [self |-> client, method |-> meth, request_description |-> description,
     signature |-> sig]

InitSign ==
    /\ pc = "start"
    /\ value = PyNone
    /\ prefix = ""
    /\ result = NoResult
    /\ self \in SignClients
    /\ method \in {"GET", "POST"}
    /\ now = ""
    /\ params = <<>>
    /\ request_description \in SignDescriptions
    /\ signature = NoSignature
    /\ url = NoUrl

CallCalcSignature ==
    /\ pc = "start"
    /\ pc' = "calc_signature"
    /\ signature' = calc_signature(self, method, request_description)
    /\ UNCHANGED <<value, prefix, result, self, method, now, params,
                   request_description, url>>

CallCalcSignatureAgain ==
    /\ pc = "calc_signature"
    /\ pc' = "calc_signature_again"
    /\ result' = Return(SignCall(self, method, request_description, signature))
    /\ self' \in SignClients
    /\ method' \in {"GET", "POST"}
    /\ request_description' \in SignDescriptions
    /\ signature' = calc_signature(self', method', request_description')
    /\ UNCHANGED <<value, prefix, now, params, url>>

NextSign == CallCalcSignature \/ CallCalcSignatureAgain

SpecSign == InitSign /\ [][NextSign]_vars

\* the arguments of sign in which the second call differs from the first
Differing ==
    LET first == result.ret
    IN  {a \in {"method", "host", "path", "query", "key"} :
           CASE a = "method" -> method # first.method
             [] a = "host" -> self.domain # first.self.domain
             [] a = "path" -> self.uri # first.self.uri
             [] a = "query" -> request_description # first.request_description
             [] a = "key" -> self.secret_key # first.self.secret_key}

(***************************************************************************)
(* C15.  Signing is deterministic and input-sensitive: a second call with  *)
(* the same method, host, path, canonical query string and key returns the *)
(* same signature; a second call that differs in exactly one of them signs *)
(* a different string (or signs under a different key), hence returns a    *)
(* different signature, HMAC taken as injective.                           *)
(***************************************************************************)
C15_DeterministicAndSensitive ==
    pc = "calc_signature_again"
        => /\ Differing = {} => signature = result.ret.signature
           /\ Cardinality(Differing) = 1
                 => /\ signature # result.ret.signature
                    /\ IF Differing = {"key"}
                       THEN signature.key # result.ret.signature.key
                       ELSE signature.msg # result.ret.signature.msg

C15_Witness ==
    /\ pc = "calc_signature_again"
    /\ Differing = {"method"}
    /\ result.ret.signature.msg = "GET\nmws.amazonservices.com\n/\nTimestamp=1"
    /\ signature.msg = "POST\nmws.amazonservices.com\n/\nTimestamp=1"
    /\ signature.key = result.ret.signature.key

(***************************************************************************)
(* SpecCaller: a caller holds a nested value (or parameter dict), a prefix *)
(* and a client, and calls the operations of the core on them one after    *)
(* another, in any order; pc names the last operation called and result    *)
(* what it returned or raised.                                             *)
(***************************************************************************)
CallerValues ==
    { PyDict(<< <<"Action", PyStr("ListOrders")>>, <<"b", PyStr("x y")>> >>),
      PyDict(<< <<"Action", PyStr("ListOrders")>>, <<"ids", PyList(<<PyInt(1), PyInt(2)>>)>> >>),
      PyDict(<< <<"Timestamp", PyStr("t")>>, <<"a", PyInt(1)>>, <<"b", PyNone>> >>),
      PyDict(<<>>),
      PyList(<<PyStr("x"), PyStr("y")>>),
      PyStr("x y") }

CallerClients ==
    { [MWS("AK", "s3cret", "ACC", region, "", "", auth_token)
         EXCEPT !._test_request_params = flag]
      : region \in {"US", "UK"}, auth_token \in {"", "tok"}, flag \in BOOLEAN }

InitCaller ==
    /\ pc = "start"
    /\ value \in CallerValues
    /\ prefix \in {"", "p"}
    /\ result = NoResult
    /\ self \in CallerClients
    /\ method \in {"GET", "POST"}
    /\ now \in Timestamps
    /\ params = <<>>
    /\ request_description = "Timestamp=1"
    /\ signature = NoSignature
    /\ url = NoUrl

CallerFlatParamDict ==
    /\ pc' = "flat_param_dict"
    /\ result' = flat_param_dict(value, prefix)
    /\ UNCHANGED <<value, prefix>>
    /\ UNCHANGED reqvars

CallerToDict ==
    /\ pc' = "to_dict"
    /\ result' = to_dict(prefix, value)
    /\ UNCHANGED <<value, prefix>>
    /\ UNCHANGED reqvars

CallerCleanParamsDict ==
    /\ value.t = "dict"
    /\ pc' = "clean_params_dict"
    /\ result' = clean_params_dict(value.items)
    /\ UNCHANGED <<value, prefix>>
    /\ UNCHANGED reqvars

CallerCleanParams ==
    /\ value.t = "dict"
    /\ pc' = "clean_params"
    /\ result' = clean_params(value.items)
    /\ UNCHANGED <<value, prefix>>
    /\ UNCHANGED reqvars

CallerCalcRequestDescription ==
    /\ value.t = "dict"
    /\ pc' = "calc_request_description"
    /\ result' = Return(PyStr(calc_request_description(value.items)))
    /\ UNCHANGED <<value, prefix>>
    /\ UNCHANGED reqvars

CallerCalcSignature ==
    /\ pc' = "calc_signature"
    /\ result' = Return(calc_signature(self, method, request_description))
    /\ UNCHANGED <<value, prefix>>
    /\ UNCHANGED reqvars

CallerMakeRequest ==
    /\ value.t = "dict"
    /\ pc' = "make_request"
    /\ LET call == make_request(self, value.items, method, now)
       IN  result' = call.out /\ value' = PyDict(call.extra_data)
    /\ UNCHANGED prefix
    /\ UNCHANGED reqvars

NextCaller ==
    \/ CallerFlatParamDict
    \/ CallerToDict
    \/ CallerCleanParamsDict
    \/ CallerCleanParams
    \/ CallerCalcRequestDescription
    \/ CallerCalcSignature
    \/ CallerMakeRequest

SpecCaller == InitCaller /\ [][NextCaller]_vars

EnumElems ==
    { PyInt(0), PyInt(5), PyNone, PyStr("x"), PyDict(<<>>),
      PyDict(<< <<"a", PyInt(1)>> >>),
      PyDict(<< <<"a", PyInt(0)>>, <<"b", PyNone>> >>) }

InitEnumerate ==
    /\ pc = "start"
    /\ value \in EnumElems \cup {PyList(<<>>), PyTuple(<<>>), PySet(<<PyInt(5)>>)}
    /\ prefix \in {"p", "p."}
    /\ result = NoResult
    /\ NoRequest

AppendValue ==
    /\ pc = "start"
    /\ value.t \in {"list", "tuple"}
    /\ Len(value.elems) < MaxValues
    /\ \E e \in EnumElems : value' = [value EXCEPT !.elems = Append(@, e)]
    /\ UNCHANGED <<pc, prefix, result>>
    /\ UNCHANGED reqvars

CallEnumerateParam ==
    /\ pc = "start"
    /\ pc' = "enumerate_param"
    /\ result' = enumerate_param(prefix, value)
    /\ UNCHANGED <<value, prefix>>
    /\ UNCHANGED reqvars

\* enumerate_params({prefix: value})
CallEnumerateParams ==
    /\ pc = "start"
    /\ pc' = "enumerate_params"
    /\ result' = enumerate_params(PyDict(<< <<prefix, value>> >>))
    /\ UNCHANGED <<value, prefix>>
    /\ UNCHANGED reqvars

CallEnumerateKeyedParam ==
    /\ pc = "start"
    /\ pc' = "enumerate_keyed_param"
    /\ result' = enumerate_keyed_param(prefix, value)
    /\ UNCHANGED <<value, prefix>>
    /\ UNCHANGED reqvars

NextEnumerate ==
    \/ AppendValue
    \/ CallEnumerateParam
    \/ CallEnumerateParams
    \/ CallEnumerateKeyedParam

SpecEnumerate == InitEnumerate /\ [][NextEnumerate]_vars

\* `values` as the list the claims speak of: itself, or the one-element list
\* of a value that is no list, tuple or set
AsList(v) == IF v.t \in {"list", "tuple", "set"} THEN v.elems ELSE <<v>>

\* param followed by exactly one "."
OneDot(param) ==
    IF Len(param) > 0 /\ CharAt(param, Len(param)) = "." THEN param ELSE param \o "."

Decimal(i) == CharAt("123456789", i)

(***************************************************************************)
(* C17.  As claimed: enumerate_keyed_param raises ValueError whenever      *)
(* `values`, as a list, holds an element that is not a dict, and returns   *)
(* nothing then; when every element is a dict it returns exactly the       *)
(* entries param.i.k -> value for the element at 1-based position i and    *)
(* each of its keys k.                                                     *)
(***************************************************************************)
C17_NonDictRaises ==
    pc = "enumerate_keyed_param"
        => LET vs == AsList(value)
           IN  IF \E i \in 1..Len(vs) : vs[i].t # "dict"
               THEN result = Raise("ValueError")
               ELSE /\ result.exc = ""
                    /\ {<<kv[1], kv[2]>> : kv \in {result.ret[j] : j \in 1..Len(result.ret)}}
                         = UNION {{<<OneDot(prefix) \o Decimal(i) \o "." \o vs[i].items[j][1],
                                     vs[i].items[j][2]>> : j \in 1..Len(vs[i].items)}
                                  : i \in 1..Len(vs)}

(***************************************************************************)
(* C18.  As claimed: enumerate_param returns one entry per element of      *)
(* `values`: for a list or tuple of n elements exactly the keys param.1 to *)
(* param.n, one "." between param and index, param.i mapped to the i-th    *)
(* element; a value that is no list, tuple or set gives the one key        *)
(* param.1.                                                                *)
(***************************************************************************)
C18_OneEntryPerElement ==
    (pc = "enumerate_param" /\ value.t # "set")
        => LET vs == AsList(value)
           IN  result = Return([i \in 1..Len(vs) |-> <<OneDot(prefix) \o Decimal(i), vs[i]>>])

=============================================================================
